---- MODULE Spec2Model ----
(***************************************************************************)
(* Hierarchical read/write lock coordinator of the ARServer and the        *)
(* scoped-acquisition helpers built on it                                  *)
(* (src/src/python/arcor2_arserver/helpers.py).                            *)
(*                                                                         *)
(* helpers.py is translated from its source.  The lock table behind        *)
(* glob.LOCK (arcor2_arserver.lock), the retry decorator                   *)
(* (arcor2_arserver.decorators) and the object graph are not part of the   *)
(* sources at hand; they are modelled from the written specification.      *)
(***************************************************************************)
EXTENDS Integers, FiniteSets, Sequences, TLC

\* ------------------------------------------------------------------ bounds
\* glob.LOCK._lock_retries, the `tries` of the retry decorator
MaxAttempts == 2

\* ------------------------------------------------------------ value spaces
Owners == {"alice", "bob"}
\* the object graph of the example scene: a scene and its two objects
Ids == {"scene1", "obj1", "obj2"}
NoRoot == "none"
Modes == {"Read", "Write"}
\* what the protected block can raise: an Arcor2Exception (or subclass), any
\* other Exception, or the cancellation of the calling task
BlockErrors == {"Arcor2Exception", "Exception", "CancelledError"}
IdSets == (SUBSET Ids) \ {{}}
\* an id that names no object of the graph, and the requests that may name it
MissingId == "gone"
RequestSets == {ids \in (SUBSET (Ids \cup {MissingId})) \ {{}} :
                   Cardinality(ids) <= 2}

\* --------------------------------------------------------- object graph
\* children_of: the graph-structure provider
children_of(id) == IF id = "scene1" THEN {"obj1", "obj2"} ELSE {}

\* exists: the graph-structure provider
exists(id) == id \in Ids

\* the ids a tree lock is requested on: those that have descendants
Roots == {id \in Ids : children_of(id) # {}}

RECURSIVE Subtree(_)
\* Tree Resolver: the object plus all its descendants
Subtree(root) ==
    IF root \notin Ids THEN {}
    ELSE {root} \cup UNION {Subtree(c) : c \in children_of(root)}

\* ------------------------------------------------------------ lock table
NoLock == [mode |-> "None", holders |-> {}, tree_root |-> [o \in {} |-> NoRoot]]

\* variant of Compatible that lets the sole holder of a write lock take a
\* read lock on the id
Compatible_downgrade(rec, owner, mode) ==
    IF mode = "Read"
    THEN rec.mode \in {"None", "Read"} \/ rec.holders = {owner}
    ELSE rec.mode = "None" \/ rec.holders = {owner}

\* compatibility of a requested mode with an existing record
Compatible(rec, owner, mode) ==
    IF mode = "Read"
    THEN rec.mode \in {"None", "Read"}
    ELSE rec.mode = "None" \/ rec.holders = {owner}

\* the record after owner's hold in `mode` is applied to it
Hold(rec, owner, mode, root) ==
    LET hs == IF mode = "Read" /\ rec.mode = "Read"
              THEN rec.holders \cup {owner} ELSE {owner}
    IN [mode |-> mode,
        holders |-> hs,
        tree_root |-> [o \in hs |-> IF o = owner THEN root ELSE rec.tree_root[o]]]

\* variant of DropRecordWhenEmpty that keeps a record without holders
KeepEmptyRecord(hs, rec) ==
    [mode |-> rec.mode, holders |-> hs,
     tree_root |-> [o \in hs |-> rec.tree_root[o]]]

\* the record after owner is removed from its holder set
DropRecordWhenEmpty(hs, rec) ==
    IF hs = {} THEN NoLock
    ELSE [mode |-> rec.mode, holders |-> hs,
          tree_root |-> [o \in hs |-> rec.tree_root[o]]]

\* the record after owner has left its holder set
Unhold(rec, owner) == DropRecordWhenEmpty(rec.holders \ {owner}, rec)

\* try_acquire: all ids compatible -> all holds applied; else nothing
try_acquire(t, ids, owner, mode, root) ==
    IF \A i \in ids : Compatible(t[i], owner, mode)
    THEN [ok |-> TRUE, exc |-> "none",
          table |-> [i \in Ids |-> IF i \in ids
                                   THEN Hold(t[i], owner, mode, root)
                                   ELSE t[i]]]
    ELSE [ok |-> FALSE, exc |-> "none", table |-> t]

\* variant of release that does not look at the mode of the record
release_any_mode(t, ids, owner, mode) ==
    [i \in Ids |-> IF i \in ids /\ owner \in t[i].holders
                   THEN Unhold(t[i], owner)
                   ELSE t[i]]

\* release: removes owner from each id's holder set for the matching mode
release(t, ids, owner, mode) ==
    [i \in Ids |-> IF i \in ids /\ t[i].mode = mode /\ owner \in t[i].holders
                   THEN Unhold(t[i], owner)
                   ELSE t[i]]

\* acquire: tree resolution combined with the table's atomic try_acquire;
\* an id that does not exist is signalled as not found, apart from a refusal
acquire(t, ids_or_root, owner, mode, as_tree) ==
    IF \E i \in ids_or_root : ~exists(i)
    THEN [ok |-> FALSE, exc |-> "NotFound", table |-> t]
    ELSE IF as_tree
    THEN LET root == CHOOSE r \in ids_or_root : TRUE
         IN try_acquire(t, Subtree(root), owner, mode, root)
    ELSE try_acquire(t, ids_or_root, owner, mode, NoRoot)

\* is_locked: owner holds mode on id directly, or (include_tree) via a tree lock
is_locked(t, id, owner, mode, include_tree) ==
    /\ t[id].mode = mode
    /\ owner \in t[id].holders
    /\ (include_tree \/ t[id].tree_root[owner] = NoRoot)

\* glob.LOCK as helpers.py calls it
write_lock(t, obj_ids, owner) == acquire(t, obj_ids, owner, "Write", FALSE)
read_lock(t, obj_ids, owner) == acquire(t, obj_ids, owner, "Read", FALSE)
write_unlock(t, obj_ids, owner) == release(t, obj_ids, owner, "Write")
read_unlock(t, obj_ids, owner) == release(t, obj_ids, owner, "Read")
is_write_locked(t, obj_id, owner, locked_tree) ==
    is_locked(t, obj_id, owner, "Write", locked_tree)
is_read_locked(t, obj_id, owner, locked_tree) ==
    is_locked(t, obj_id, owner, "Read", locked_tree)

\* the ids on which owner is among the holders
Held(t, owner) == {i \in Ids : owner \in t[i].holders}

\* ------------------------------------------------- helpers.py: the wrappers
RECURSIVE WriteLockEach(_, _, _)
\* write_lock called id by id: stops at the first refusal, keeps the rest
WriteLockEach(t, ids, owner) ==
    IF ids = {} THEN [ok |-> TRUE, exc |-> "none", table |-> t]
    ELSE LET i == CHOOSE x \in ids : TRUE
             r == write_lock(t, {i}, owner)
         IN IF r.ok THEN WriteLockEach(r.table, ids \ {i}, owner)
            ELSE [ok |-> FALSE, exc |-> "none", table |-> t]

\* variant of ctx_write_lock.lock that locks the ids one at a time
ctx_write_lock_lock_each(t, obj_ids, owner) ==
    LET r == WriteLockEach(t, obj_ids, owner)
    IN [exc |-> IF ~r.ok THEN "CannotLock" ELSE "none", table |-> r.table]

\* variant of ctx_write_lock.lock that calls read_lock
ctx_write_lock_lock_shared(t, obj_ids, owner) ==
    LET r == read_lock(t, obj_ids, owner)
    IN [exc |-> IF ~r.ok THEN "CannotLock" ELSE "none", table |-> r.table]

\* variant of ctx_write_lock.lock that turns whatever write_lock raises
\* into CannotLock
ctx_write_lock_lock_swallow(t, obj_ids, owner) ==
    LET r == write_lock(t, obj_ids, owner)
    IN [exc |-> IF r.exc # "none" \/ ~r.ok THEN "CannotLock" ELSE "none",
        table |-> r.table]

\* variant of ctx_write_lock.lock that gives up while another owner holds a
\* lock on any object, requested or not
ctx_write_lock_lock_global(t, obj_ids, owner) ==
    LET busy == \E i \in Ids : t[i].holders \ {owner} # {}
        r == write_lock(t, obj_ids, owner)
    IN [exc |-> IF r.exc # "none" THEN r.exc
                ELSE IF busy \/ ~r.ok THEN "CannotLock" ELSE "none",
        table |-> IF busy THEN t ELSE r.table]

\* variant of ctx_write_lock.lock that raises CannotLock on an id that has a
\* record, the caller's own included
ctx_write_lock_lock_no_reentry(t, obj_ids, owner) ==
    LET busy == \E i \in obj_ids \cap Ids : t[i] # NoLock
        r == write_lock(t, obj_ids, owner)
    IN [exc |-> IF r.exc # "none" THEN r.exc
                ELSE IF busy \/ ~r.ok THEN "CannotLock" ELSE "none",
        table |-> IF busy THEN t ELSE r.table]

\* variant of ctx_write_lock.lock that releases the caller's locks on the
\* requested ids before it raises CannotLock
ctx_write_lock_lock_cleanup(t, obj_ids, owner) ==
    LET r == write_lock(t, obj_ids, owner)
    IN [exc |-> IF r.exc # "none" THEN r.exc
                ELSE IF ~r.ok THEN "CannotLock" ELSE "none",
        table |-> IF r.exc = "none" /\ ~r.ok
                  THEN release(release(r.table, obj_ids, owner, "Write"),
                               obj_ids, owner, "Read")
                  ELSE r.table]

\* ctx_write_lock.lock: one attempt; a refused write_lock raises CannotLock,
\* what write_lock itself raises passes through
ctx_write_lock_lock(t, obj_ids, owner) ==
    LET r == write_lock(t, obj_ids, owner)
    IN [exc |-> IF r.exc # "none" THEN r.exc
                ELSE IF ~r.ok THEN "CannotLock" ELSE "none",
        table |-> r.table]

RECURSIVE ReadLockEach(_, _, _)
\* read_lock called id by id: stops at the first refusal, keeps the rest
ReadLockEach(t, ids, owner) ==
    IF ids = {} THEN [ok |-> TRUE, exc |-> "none", table |-> t]
    ELSE LET i == CHOOSE x \in ids : TRUE
             r == read_lock(t, {i}, owner)
         IN IF r.ok THEN ReadLockEach(r.table, ids \ {i}, owner)
            ELSE [ok |-> FALSE, exc |-> "none", table |-> t]

\* variant of ctx_read_lock.lock that locks the ids one at a time
ctx_read_lock_lock_each(t, obj_ids, owner) ==
    LET r == ReadLockEach(t, obj_ids, owner)
    IN [exc |-> IF ~r.ok THEN "CannotLock" ELSE "none", table |-> r.table]

\* variant of ctx_read_lock.lock that raises LockingException, the base
\* class of CannotLock, which retry(exc=CannotLock) does not catch
ctx_read_lock_lock_base_exc(t, obj_ids, owner) ==
    LET r == read_lock(t, obj_ids, owner)
    IN [exc |-> IF ~r.ok THEN "LockingException" ELSE "none", table |-> r.table]

\* variant of ctx_read_lock.lock that gives up as soon as another owner
\* holds any lock, shared ones included, on one of the ids
ctx_read_lock_lock_exclusive(t, obj_ids, owner) ==
    LET r == read_lock(t, obj_ids, owner)
        busy == \E i \in obj_ids : t[i].holders \ {owner} # {}
    IN IF busy THEN [exc |-> "CannotLock", table |-> t]
       ELSE [exc |-> IF ~r.ok THEN "CannotLock" ELSE "none", table |-> r.table]

\* variant of ctx_read_lock.lock that gives up while another owner holds a
\* write lock on any object, requested or not
ctx_read_lock_lock_global(t, obj_ids, owner) ==
    LET busy == \E i \in Ids : t[i].mode = "Write" /\ t[i].holders # {owner}
        r == read_lock(t, obj_ids, owner)
    IN [exc |-> IF r.exc # "none" THEN r.exc
                ELSE IF busy \/ ~r.ok THEN "CannotLock" ELSE "none",
        table |-> IF busy THEN t ELSE r.table]

\* ctx_read_lock.lock: one attempt; a refused read_lock raises CannotLock,
\* what read_lock itself raises passes through
ctx_read_lock_lock(t, obj_ids, owner) ==
    LET r == read_lock(t, obj_ids, owner)
    IN [exc |-> IF r.exc # "none" THEN r.exc
                ELSE IF ~r.ok THEN "CannotLock" ELSE "none",
        table |-> r.table]

\* retry(exc, tries, delay): after an attempt that raised `raised`, the
\* decorator waits and tries again iff it raised exc and attempts are left
retry(exc, tries, raised, made) == raised = exc /\ made < tries

\* variant of ctx_write_lock with `else:` in the place of `finally:`
ctx_write_lock_exit_else(t, obj_ids, owner, auto_unlock, dry_run, err) ==
    LET t1 == IF err = "Arcor2Exception" /\ ~dry_run /\ ~auto_unlock
              THEN write_unlock(t, obj_ids, owner) ELSE t
    IN IF err = "none" /\ (dry_run \/ auto_unlock)
       THEN write_unlock(t1, obj_ids, owner) ELSE t1

\* ctx_write_lock from the protected block's exit on: the except clause,
\* then the finally clause; err = "none" is a normal exit
ctx_write_lock_exit(t, obj_ids, owner, auto_unlock, dry_run, err) ==
    LET t1 == IF err = "Arcor2Exception" /\ ~dry_run /\ ~auto_unlock
              THEN write_unlock(t, obj_ids, owner) ELSE t
    IN IF dry_run \/ auto_unlock THEN write_unlock(t1, obj_ids, owner) ELSE t1

\* variant of ctx_read_lock whose finally clause tests auto_unlock alone
ctx_read_lock_exit_auto_only(t, obj_ids, owner, auto_unlock, dry_run, err) ==
    LET t1 == IF err = "Arcor2Exception" /\ ~dry_run /\ ~auto_unlock
              THEN read_unlock(t, obj_ids, owner) ELSE t
    IN IF auto_unlock THEN read_unlock(t1, obj_ids, owner) ELSE t1

\* variant of ctx_read_lock that unlocks every object the owner has
\* read-locked instead of obj_ids
ctx_read_lock_exit_all(t, obj_ids, owner, auto_unlock, dry_run, err) ==
    LET t1 == IF err = "Arcor2Exception" /\ ~dry_run /\ ~auto_unlock
              THEN read_unlock(t, Ids, owner) ELSE t
    IN IF dry_run \/ auto_unlock THEN read_unlock(t1, Ids, owner) ELSE t1

\* ctx_read_lock from the protected block's exit on
ctx_read_lock_exit(t, obj_ids, owner, auto_unlock, dry_run, err) ==
    LET t1 == IF err = "Arcor2Exception" /\ ~dry_run /\ ~auto_unlock
              THEN read_unlock(t, obj_ids, owner) ELSE t
    IN IF dry_run \/ auto_unlock THEN read_unlock(t1, obj_ids, owner) ELSE t1

\* the number of write_unlock calls ctx_write_lock makes from the protected
\* block's exit on: one in the except clause, one in the finally clause
ctx_write_lock_unlocks(auto_unlock, dry_run, err) ==
    (IF err = "Arcor2Exception" /\ ~dry_run /\ ~auto_unlock THEN 1 ELSE 0)
    + (IF dry_run \/ auto_unlock THEN 1 ELSE 0)

\* the number of read_unlock calls ctx_read_lock makes from the protected
\* block's exit on
ctx_read_lock_unlocks(auto_unlock, dry_run, err) ==
    (IF err = "Arcor2Exception" /\ ~dry_run /\ ~auto_unlock THEN 1 ELSE 0)
    + (IF dry_run \/ auto_unlock THEN 1 ELSE 0)

\* variant of get_unlocked_objects that asks about the other owners
get_unlocked_objects_foreign(t, obj_ids, owner) ==
    {obj_id \in obj_ids :
        ~\E other \in Owners \ {owner} : is_write_locked(t, obj_id, other, FALSE)}

\* get_unlocked_objects: the ids for which is_write_locked(id, owner) is false
get_unlocked_objects(t, obj_ids, owner) ==
    {obj_id \in obj_ids : ~is_write_locked(t, obj_id, owner, FALSE)}

\* ensure_write_locked: raises LockingException unless
\* is_write_locked(obj_id, owner, locked_tree)
ensure_write_locked(t, obj_id, owner, locked_tree) ==
    IF ~is_write_locked(t, obj_id, owner, locked_tree)
    THEN "LockingException" ELSE "none"

\* ensure_read_locked: raises LockingException unless
\* is_read_locked(obj_id, owner); locked_tree is accepted and not passed on,
\* so the table answers for a direct lock
ensure_read_locked(t, obj_id, owner, locked_tree) ==
    IF ~is_read_locked(t, obj_id, owner, FALSE)
    THEN "LockingException" ELSE "none"

\* ------------------------------------------------------------------ state
\* locks     the lock table: one record per object id (NoLock = no record)
\* pc        where each owner's task stands: "idle", "wait" (asleep between
\*           two attempts of lock()) or "body" (inside the protected block)
\* call      the mode and ids of the scoped acquisition an owner is in
\* attempts  the attempts lock() has made while the owner waits
\* pre       the ids the owner held when the call it waits in began
\* last      what the last step did, when it acquired the lock of a call,
\*           ended a call or was a tree acquisition; NoEvent otherwise
\* inner     the mode and ids of the scoped acquisition an owner has
\*           opened inside its protected block (NoCall = none)
VARIABLES locks, pc, call, attempts, pre, last, inner

vars == <<locks, pc, call, attempts, pre, last, inner>>

NoCall == [mode |-> "None", ids |-> {}]

NoEvent == [op |-> "none", owner |-> "none", mode |-> "None", root |-> NoRoot,
            auto_unlock |-> FALSE, dry_run |-> FALSE, attempts |-> 0,
            outcome |-> "none", residual |-> {}, unlocks |-> 0]

\* the event of a step of owner o; residual: the ids among `ids` on which
\* the owner is a holder once the step is done (table t); unlocks: the
\* unlock calls the step made, filled in by an exit
Event(op, o, mode, root, auto_unlock, dry_run, made, result, ids, t) ==
    [op |-> op, owner |-> o, mode |-> mode, root |-> root,
     auto_unlock |-> auto_unlock, dry_run |-> dry_run, attempts |-> made,
     outcome |-> result, residual |-> ids \cap Held(t, o), unlocks |-> 0]

Init ==
    /\ locks = [i \in Ids |-> NoLock]
    /\ pc = [o \in Owners |-> "idle"]
    /\ call = [o \in Owners |-> NoCall]
    /\ attempts = [o \in Owners |-> 0]
    /\ pre = [o \in Owners |-> {}]
    /\ last = NoEvent
    /\ inner = [o \in Owners |-> NoCall]

\* one attempt of lock() for a call of owner o
LockOnce(o, mode, ids) ==
    IF mode = "Write"
    THEN ctx_write_lock_lock(locks, ids, o)
    ELSE ctx_read_lock_lock(locks, ids, o)

\* the table after the exit of the current call of owner o
ExitTable(o, auto_unlock, dry_run, err) ==
    IF call[o].mode = "Write"
    THEN ctx_write_lock_exit(locks, call[o].ids, o, auto_unlock, dry_run, err)
    ELSE ctx_read_lock_exit(locks, call[o].ids, o, auto_unlock, dry_run, err)

\* the unlock calls of the exit of the current call of owner o
ExitUnlocks(o, auto_unlock, dry_run, err) ==
    IF call[o].mode = "Write"
    THEN ctx_write_lock_unlocks(auto_unlock, dry_run, err)
    ELSE ctx_read_lock_unlocks(auto_unlock, dry_run, err)

\* a write request of an owner that holds a read lock on one of the ids
Upgrades(t, ids, o, mode) ==
    /\ mode = "Write"
    /\ \E i \in ids \cap Ids : t[i].mode = "Read" /\ o \in t[i].holders

\* what follows an attempt, the made-th of its call, with result r: the
\* block is entered, the decorator sleeps, or the exception reaches the caller
AfterAttempt(o, mode, ids, r, made, held) ==
    /\ locks' = r.table
    /\ UNCHANGED inner
    /\ IF r.exc = "none"
       THEN /\ pc' = [pc EXCEPT ![o] = "body"]
            /\ call' = [call EXCEPT ![o] = [mode |-> mode, ids |-> ids]]
            /\ attempts' = [attempts EXCEPT ![o] = 0]
            /\ pre' = [pre EXCEPT ![o] = {}]
            /\ last' = Event("acquired", o, mode, NoRoot, FALSE, FALSE, made,
                             IF Upgrades(locks, ids, o, mode)
                             THEN "upgraded" ELSE "none",
                             ids, r.table)
       ELSE IF retry("CannotLock", MaxAttempts, r.exc, made)
       THEN /\ pc' = [pc EXCEPT ![o] = "wait"]
            /\ call' = [call EXCEPT ![o] = [mode |-> mode, ids |-> ids]]
            /\ attempts' = [attempts EXCEPT ![o] = made]
            /\ pre' = [pre EXCEPT ![o] = held]
            /\ last' = NoEvent
       ELSE /\ pc' = [pc EXCEPT ![o] = "idle"]
            /\ call' = [call EXCEPT ![o] = NoCall]
            /\ attempts' = [attempts EXCEPT ![o] = 0]
            /\ pre' = [pre EXCEPT ![o] = {}]
            /\ last' = Event("failed", o, mode, NoRoot, FALSE, FALSE, made,
                             r.exc, ids, r.table)

\* ---------------------------------------------------------------- actions
\* a caller enters `async with ctx_write_lock(...)` / ctx_read_lock(...):
\* the generator runs up to the first attempt of lock() without suspending
CtxEnter(o, mode, ids) ==
    /\ pc[o] = "idle"
    /\ AfterAttempt(o, mode, ids, LockOnce(o, mode, ids), 1, Held(locks, o))

\* the retry delay has elapsed: lock() is attempted again
RetryAttempt(o) ==
    /\ pc[o] = "wait"
    /\ AfterAttempt(o, call[o].mode, call[o].ids,
                    LockOnce(o, call[o].mode, call[o].ids),
                    attempts[o] + 1, pre[o])

\* the calling task is cancelled while it sleeps between two attempts: the
\* CancelledError leaves `await lock()`, which is outside the try statement
CancelInWait(o) ==
    /\ pc[o] = "wait"
    /\ pc' = [pc EXCEPT ![o] = "idle"]
    /\ call' = [call EXCEPT ![o] = NoCall]
    /\ attempts' = [attempts EXCEPT ![o] = 0]
    /\ pre' = [pre EXCEPT ![o] = {}]
    /\ last' = Event("cancelled", o, call[o].mode, NoRoot, FALSE, FALSE,
                     attempts[o], "CancelledError", call[o].ids, locks)
    /\ UNCHANGED <<locks, inner>>

\* the protected block ends, normally (err = "none") or by raising err.
\* auto_unlock and dry_run are arguments of the call that the code reads
\* nowhere before this point, so they are drawn here
BlockExit(o, auto_unlock, dry_run, err) ==
    /\ pc[o] = "body"
    /\ inner[o] = NoCall
    /\ locks' = ExitTable(o, auto_unlock, dry_run, err)
    /\ pc' = [pc EXCEPT ![o] = "idle"]
    /\ call' = [call EXCEPT ![o] = NoCall]
    /\ last' = [Event("exit", o, call[o].mode, NoRoot, auto_unlock, dry_run, 0,
                      err, call[o].ids, ExitTable(o, auto_unlock, dry_run, err))
                EXCEPT !.unlocks = ExitUnlocks(o, auto_unlock, dry_run, err)]
    /\ UNCHANGED <<attempts, pre, inner>>

\* the table after the exit of the scoped acquisition that owner o opened
\* inside its block
InnerExitTable(o, auto_unlock, dry_run, err) ==
    IF inner[o].mode = "Write"
    THEN ctx_write_lock_exit(locks, inner[o].ids, o, auto_unlock, dry_run, err)
    ELSE ctx_read_lock_exit(locks, inner[o].ids, o, auto_unlock, dry_run, err)

\* inside its protected block the owner enters another `async with
\* ctx_write_lock(...)` / ctx_read_lock(...) and its lock() is granted. A
\* refused lock() changes no lock and ends, at the latest after the last
\* attempt, as an error raised in the outer block
InnerEnter(o, mode, ids) ==
    /\ pc[o] = "body"
    /\ inner[o] = NoCall
    /\ LockOnce(o, mode, ids).exc = "none"
    /\ locks' = LockOnce(o, mode, ids).table
    /\ inner' = [inner EXCEPT ![o] = [mode |-> mode, ids |-> ids]]
    /\ last' = NoEvent
    /\ UNCHANGED <<pc, call, attempts, pre>>

\* the inner protected block ends and the outer one goes on
InnerExit(o, auto_unlock, dry_run, err) ==
    /\ pc[o] = "body"
    /\ inner[o] # NoCall
    /\ locks' = InnerExitTable(o, auto_unlock, dry_run, err)
    /\ inner' = [inner EXCEPT ![o] = NoCall]
    /\ last' = Event("inner_exit", o, inner[o].mode, NoRoot, auto_unlock,
                     dry_run, 0, err, inner[o].ids,
                     InnerExitTable(o, auto_unlock, dry_run, err))
    /\ UNCHANGED <<pc, call, attempts, pre>>

\* acquire(root, owner, mode, as_tree = true) called on the engine directly
TreeAcquire(o, root, mode) ==
    /\ pc[o] = "idle"
    /\ LET r == acquire(locks, {root}, o, mode, TRUE)
       IN /\ locks' = r.table
          /\ last' = Event("tree", o, mode, root, FALSE, FALSE, 1,
                           IF r.ok THEN "acquired" ELSE "refused",
                           Subtree(root), r.table)
    /\ UNCHANGED <<pc, call, attempts, pre, inner>>

\* the explicit release of locks that were left held
Release(o, ids, mode) ==
    /\ pc[o] = "idle"
    /\ locks' = release(locks, ids, o, mode)
    /\ last' = NoEvent
    /\ UNCHANGED <<pc, call, attempts, pre, inner>>

\* scoped acquisitions with every exit policy and every kind of exit
Next ==
    \E o \in Owners :
        \/ \E mode \in Modes, ids \in IdSets : CtxEnter(o, mode, ids)
        \/ RetryAttempt(o)
        \/ CancelInWait(o)
        \/ \E au \in BOOLEAN, dr \in BOOLEAN, err \in BlockErrors \cup {"none"} :
               BlockExit(o, au, dr, err)
        \/ \E ids \in IdSets, mode \in Modes : Release(o, ids, mode)

Spec == Init /\ [][Next]_vars

\* tree acquisitions next to scoped acquisitions that release at a normal
\* end of the block (the defaults auto_unlock = True, dry_run = False)
NextTree ==
    \E o \in Owners :
        \/ \E mode \in Modes, ids \in IdSets : CtxEnter(o, mode, ids)
        \/ RetryAttempt(o)
        \/ CancelInWait(o)
        \/ BlockExit(o, TRUE, FALSE, "none")
        \/ \E root \in Roots, mode \in Modes : TreeAcquire(o, root, mode)
        \/ \E ids \in IdSets, mode \in Modes : Release(o, ids, mode)

SpecTree == Init /\ [][NextTree]_vars

\* scoped acquisitions whose requests may name an id that does not exist
NextMissing ==
    \E o \in Owners :
        \/ \E mode \in Modes, ids \in RequestSets : CtxEnter(o, mode, ids)
        \/ RetryAttempt(o)
        \/ CancelInWait(o)
        \/ \E au \in BOOLEAN : BlockExit(o, au, FALSE, "none")
        \/ \E ids \in IdSets, mode \in Modes : Release(o, ids, mode)

SpecMissing == Init /\ [][NextMissing]_vars

\* scoped acquisitions inside whose block the owner opens another one on
\* ids of the request, all with the defaults auto_unlock = True, dry_run = False
NextNested ==
    \E o \in Owners :
        \/ \E mode \in Modes, ids \in IdSets : CtxEnter(o, mode, ids)
        \/ RetryAttempt(o)
        \/ CancelInWait(o)
        \/ BlockExit(o, TRUE, FALSE, "none")
        \/ \E mode \in Modes, ids \in IdSets :
               ids \subseteq call[o].ids /\ InnerEnter(o, mode, ids)
        \/ InnerExit(o, TRUE, FALSE, "none")

SpecNested == Init /\ [][NextNested]_vars

TypeOK ==
    /\ \A i \in Ids : /\ locks[i].mode \in {"None", "Read", "Write"}
                      /\ locks[i].holders \subseteq Owners
    /\ \A o \in Owners : /\ pc[o] \in {"idle", "wait", "body"}
                         /\ attempts[o] \in 0..MaxAttempts
                         /\ pre[o] \subseteq Ids

\* ------------------------------------------------- steps, as seen from outside
\* owner o's attempt of this step was refused (it now sleeps or has given up)
AttemptFailed(o) ==
    \/ pc'[o] = "wait" /\ attempts'[o] = attempts[o] + 1
    \/ pc[o] = "wait" /\ pc'[o] = "idle" /\ last'.op = "failed"

\* owner o's attempt of this step acquired the lock
AttemptSucceeded(o) == pc[o] # "body" /\ pc'[o] = "body"

\* the mode and the ids of the attempt owner o makes in this step
AttemptMode(o) == IF pc[o] = "wait" THEN call[o].mode ELSE call'[o].mode
AttemptIds(o) == IF pc[o] = "wait" THEN call[o].ids ELSE call'[o].ids

\* ------------------------------------------------------------------ claims
\* C1: at most one owner holds a write lock on an id; of two owners whose
\* write attempts on a common id interleave, one is in its block as the only
\* holder and the other is not.
C1_SingleWriter ==
    /\ \A i \in Ids : locks[i].mode = "Write" => Cardinality(locks[i].holders) = 1
    /\ \A o \in Owners :
          pc[o] = "body" /\ call[o].mode = "Write" =>
              /\ \A i \in call[o].ids : /\ locks[i].mode = "Write"
                                        /\ locks[i].holders = {o}
              /\ \A p \in Owners \ {o} :
                    call[p].mode = "Write" /\ call[p].ids \cap call[o].ids # {}
                        => pc[p] # "body"

C1_Witness ==
    \E o \in Owners, p \in Owners :
        /\ o # p
        /\ pc[o] = "body" /\ call[o].mode = "Write"
        /\ pc[p] = "wait" /\ call[p].mode = "Write" /\ attempts[p] >= 1
        /\ call[p].ids \cap call[o].ids # {}

\* C2: an acquisition over a set of ids, explicit or the subtree of a tree
\* lock, is all-or-nothing: a refused attempt leaves the table as it was, a
\* granted one locks every id of the set in the requested mode in that step.
C2_AllOrNothing ==
    [][/\ \A o \in Owners :
            /\ AttemptFailed(o) => locks' = locks
            /\ AttemptSucceeded(o) =>
                  /\ \A i \in call'[o].ids : /\ locks'[i].mode = call'[o].mode
                                             /\ o \in locks'[i].holders
                  /\ \A i \in Ids \ call'[o].ids : locks'[i] = locks[i]
       /\ last'.op = "tree" /\ last'.outcome = "refused" => locks' = locks
       /\ last'.op = "tree" /\ last'.outcome = "acquired" =>
            /\ \A i \in Subtree(last'.root) :
                  /\ locks'[i].mode = last'.mode
                  /\ last'.owner \in locks'[i].holders
            /\ \A i \in Ids \ Subtree(last'.root) : locks'[i] = locks[i]
      ]_vars

C2_Witness ==
    /\ last.op = "tree" /\ last.outcome = "refused" /\ last.residual = {}
    /\ \E i \in Subtree(last.root) : locks[i].holders \ {last.owner} # {}
    /\ \E i \in Subtree(last.root) : locks[i] = NoLock

\* C3: after a block entered with auto_unlock = true has ended, normally or
\* by any error, the owner holds no lock on the requested ids.
C3_AutoUnlock ==
    last.op = "exit" /\ last.auto_unlock => last.residual = {}

C3_Witness ==
    /\ last.op = "exit" /\ last.auto_unlock /\ ~last.dry_run
    /\ last.outcome = "CancelledError"
    /\ last.residual = {}

\* C4: with auto_unlock = false and dry_run = false the lock stays held after
\* a normal end of the block and is released after every error, whatever its
\* kind.
C4_KeepUnlessError ==
    last.op = "exit" /\ ~last.auto_unlock /\ ~last.dry_run =>
        IF last.outcome = "none" THEN last.residual # {} ELSE last.residual = {}

\* C5: after a block entered with dry_run = true has ended the lock is
\* released, for both values of auto_unlock, after a normal end and an error.
C5_DryRun ==
    last.op = "exit" /\ last.dry_run => last.residual = {}

C5_Witness ==
    /\ last.op = "exit" /\ last.dry_run /\ ~last.auto_unlock
    /\ last.outcome = "none"
    /\ last.residual = {}

\* C6: a call whose every attempt is refused makes exactly MaxAttempts
\* attempts, one more with each refusal, then raises CannotLock; no refused
\* attempt changes the table.
C6_BoundedRetry ==
    [][/\ last'.op = "failed" =>
            /\ last'.attempts = MaxAttempts
            /\ last'.outcome = "CannotLock"
       /\ \A o \in Owners :
            AttemptFailed(o) =>
                /\ locks' = locks
                /\ pc'[o] = "wait" => attempts'[o] < MaxAttempts
      ]_vars

C6_Witness ==
    /\ last.op = "failed" /\ last.attempts = MaxAttempts
    /\ last.outcome = "CannotLock"
    /\ last.residual = {}

\* the ids of a batch on which owner itself holds a direct write lock
DirectlyWriteHeld(owner) ==
    {i \in Ids : /\ locks[i].mode = "Write"
                 /\ locks[i].holders = {owner}
                 /\ locks[i].tree_root[owner] = NoRoot}

\* the ids of a batch that an owner other than `owner` has write-locked
ForeignWriteLocked(owner) ==
    {i \in Ids : locks[i].mode = "Write" /\ locks[i].holders \ {owner} # {}}

C8_ReadSharesWriteExcludes ==
    [][\A o \in Owners :
          /\ AttemptFailed(o) /\ AttemptMode(o) = "Read" =>
                \E i \in AttemptIds(o) : locks[i].mode = "Write"
          /\ AttemptSucceeded(o) /\ AttemptMode(o) = "Write" =>
                \A i \in AttemptIds(o) : locks[i].holders \subseteq {o}
      ]_vars

C8_Witness ==
    \E o \in Owners, p \in Owners :
        /\ o # p
        /\ pc[p] = "body" /\ call[p].mode = "Read"
        /\ \E i \in call[p].ids : /\ locks[i].mode = "Read"
                                  /\ {o, p} \subseteq locks[i].holders

\* C9: every lock record is well-formed: a Write record has one holder, a
\* Read record at least one, and no record is left without holders.
C9_WellFormed ==
    \A i \in Ids :
        /\ locks[i].mode = "Write" => Cardinality(locks[i].holders) = 1
        /\ locks[i].mode = "Read" => Cardinality(locks[i].holders) >= 1
        /\ locks[i].holders = {} => locks[i] = NoLock
        /\ DOMAIN locks[i].tree_root = locks[i].holders

C9_Witness ==
    /\ last.op = "exit" /\ last.residual = {}
    /\ \E i \in Ids : locks[i] = NoLock
    /\ \E i \in Ids : locks[i].mode = "Read" /\ Cardinality(locks[i].holders) = 2

\* C10: an owner asleep between two attempts holds exactly the locks it held
\* before the call, and the cancellation of that sleep changes no lock.
C10_NoLockWhileWaiting ==
    [][/\ \A o \in Owners : pc'[o] = "wait" => Held(locks', o) = pre'[o]
       /\ last'.op = "cancelled" => locks' = locks
      ]_vars

C10_Witness ==
    /\ last.op = "cancelled" /\ last.attempts >= 1
    /\ last.residual = {}
    /\ \E i \in Ids : locks[i].holders \ {last.owner} # {}

\* C11: releasing a hold the owner does not have, because it never had it or
\* has released it already, leaves the table as it is; a release repeated
\* changes nothing more.
C11_ReleaseIdempotent ==
    \A o \in Owners, ids \in IdSets, mode \in Modes :
        LET once == release(locks, ids, o, mode)
        IN /\ release(once, ids, o, mode) = once
           /\ (\A i \in ids : ~(locks[i].mode = mode /\ o \in locks[i].holders))
                 => once = locks

C11_Witness ==
    /\ last.op = "exit" /\ last.mode = "Write" /\ last.residual = {}
    /\ \E i \in Ids : /\ locks[i].mode = "Read"
                      /\ last.owner \in locks[i].holders
                      /\ write_unlock(locks, {i}, last.owner) = locks

\* C12: a scoped acquisition that names an id that does not exist is given up
\* after one attempt with the not-found condition; it never sleeps nor enters
\* its block, and CannotLock is raised only once the attempts are used up.
C12_NotFoundNotRetried ==
    /\ last.op = "failed" /\ last.outcome = "NotFound" => last.attempts = 1
    /\ last.op = "failed" /\ last.outcome = "CannotLock" =>
          last.attempts = MaxAttempts
    /\ last.op = "failed" => last.outcome \in {"NotFound", "CannotLock"}
    /\ \A o \in Owners : pc[o] # "idle" => \A i \in call[o].ids : exists(i)

C12_Witness ==
    /\ last.op = "failed" /\ last.outcome = "NotFound" /\ last.attempts = 1
    /\ \E i \in Ids : locks[i] # NoLock

\* the owner holds a lock of the mode on the id: directly or, when tree is
\* true, through a tree lock as well
HoldsFor(id, owner, mode, tree) ==
    /\ locks[id].mode = mode
    /\ owner \in locks[id].holders
    /\ tree \/ locks[id].tree_root[owner] = NoRoot

\* C13: ensure_write_locked and ensure_read_locked pass exactly when the
\* owner holds the lock of that mode on the id, directly or, when locked_tree
\* is true, through a tree lock; otherwise they raise.
C13_EnsureLocked ==
    \A i \in Ids, o \in Owners, tree \in BOOLEAN :
        /\ ensure_write_locked(locks, i, o, tree) = "none"
                <=> HoldsFor(i, o, "Write", tree)
        /\ ensure_read_locked(locks, i, o, tree) = "none"
                <=> HoldsFor(i, o, "Read", tree)

\* C14: an acquisition is refused only because of a lock on one of its own
\* ids (for a tree lock, an id of its subtree), so acquisitions over
\* disjoint id sets never make each other fail; a request whose ids are all
\* unlocked is granted.
C14_NoFalseContention ==
    [][/\ \A o \in Owners :
            AttemptFailed(o) =>
                \E i \in AttemptIds(o) :
                    /\ locks[i] # NoLock
                    /\ \/ locks[i].holders \ {o} # {}
                       \/ AttemptMode(o) # locks[i].mode
       /\ last'.op = "tree" /\ last'.outcome = "refused" =>
            \E i \in Subtree(last'.root) :
                /\ locks[i] # NoLock
                /\ \/ locks[i].holders \ {last'.owner} # {}
                   \/ last'.mode # locks[i].mode
      ]_vars

\* two owners are in their blocks with write locks on disjoint id sets
C14_Witness ==
    \E o \in Owners, p \in Owners :
        /\ o # p
        /\ pc[o] = "body" /\ call[o].mode = "Write"
        /\ pc[p] = "body" /\ call[p].mode = "Write"
        /\ call[o].ids \cap call[p].ids = {}
        /\ last.op = "acquired" /\ last.owner = p

\* C15: an owner whose read request on a descendant was refused because of
\* another owner's tree write lock, and who still waits for its next
\* attempt, is granted the lock by that attempt once the write lock has been
\* released and no write lock is left on the requested ids.
C15_RetryAfterRelease ==
    [][\A o \in Owners :
            /\ pc[o] = "wait" /\ call[o].mode = "Read"
            /\ AttemptFailed(o) \/ AttemptSucceeded(o)
            /\ \A i \in call[o].ids : locks[i].mode # "Write"
            => /\ AttemptSucceeded(o)
               /\ last'.op = "acquired" /\ last'.owner = o
               /\ last'.attempts = attempts[o] + 1
               /\ \A i \in call[o].ids : /\ locks'[i].mode = "Read"
                                          /\ o \in locks'[i].holders
      ]_vars

\* a read lock on the descendant obj1 was acquired by a second attempt, and
\* the other owner, whose lock refused the first one, holds nothing any more
C15_Witness ==
    /\ last.op = "acquired" /\ last.mode = "Read" /\ last.attempts = 2
    /\ "obj1" \in last.residual /\ "obj1" \notin Roots
    /\ \A p \in Owners \ {last.owner} : pc[p] = "idle" /\ Held(locks, p) = {}

\* the state of an (id, owner) pair in table t
PairState(t, i, o) == IF o \in t[i].holders THEN t[i].mode ELSE "Unlocked"

\* C16 (as stated): no (id, owner) pair ever moves directly between
\* Read-held and Write-held.
C16_NoDirectModeChange ==
    [][\A i \in Ids, o \in Owners :
            /\ ~(PairState(locks, i, o) = "Read" /\ PairState(locks', i, o) = "Write")
            /\ ~(PairState(locks, i, o) = "Write" /\ PairState(locks', i, o) = "Read")
      ]_vars

\* C16 (amended): a pair never moves from Write-held to Read-held, and it
\* moves from Read-held to Write-held only by the owner's own granted write
\* request while it is the sole holder of the read lock; every other step
\* of a pair starts or ends in Unlocked or keeps its state.
C16_OnlySelfUpgrade ==
    [][\A i \in Ids, o \in Owners :
            /\ ~(PairState(locks, i, o) = "Write" /\ PairState(locks', i, o) = "Read")
            /\ PairState(locks, i, o) = "Read" /\ PairState(locks', i, o) = "Write"
                => /\ locks[i].holders = {o}
                   /\ locks'[i].holders = {o}
                   /\ \/ AttemptSucceeded(o) /\ AttemptMode(o) = "Write"
                      \/ /\ last'.op = "tree" /\ last'.outcome = "acquired"
                         /\ last'.owner = o /\ last'.mode = "Write"
      ]_vars

\* an owner that held a read lock on a requested id has just been granted
\* the write lock on it
C16_Witness ==
    /\ last.op = "acquired" /\ last.outcome = "upgraded" /\ last.mode = "Write"
    /\ \A i \in last.residual : /\ locks[i].mode = "Write"
                                /\ locks[i].holders = {last.owner}

\* C17: a write attempt is granted exactly when each requested id has no
\* record or a record, Read or Write, whose only holder is the requester;
\* it is refused when another owner is among the holders, also when the
\* requester is one of several read holders.
C17_WriteCompatibility ==
    [][\A o \in Owners :
            /\ AttemptFailed(o) \/ AttemptSucceeded(o)
            /\ AttemptMode(o) = "Write"
            => (AttemptSucceeded(o) <=>
                    \A i \in AttemptIds(o) :
                        locks[i] = NoLock \/ locks[i].holders = {o})
      ]_vars

\* a write request waits after a refusal on an id whose read lock the
\* requester shares with another owner
C17_Witness ==
    \E o \in Owners, i \in Ids :
        /\ pc[o] = "wait" /\ call[o].mode = "Write" /\ i \in call[o].ids
        /\ locks[i].mode = "Read"
        /\ o \in locks[i].holders /\ locks[i].holders # {o}

\* C18: while the protected block of a scoped acquisition runs, the owner
\* holds the lock of the requested mode on every requested id, also after a
\* scoped acquisition the same owner opened inside the block has ended.
C18_HeldThroughoutBlock ==
    \A o \in Owners :
        pc[o] = "body" =>
            \A i \in call[o].ids : /\ locks[i].mode = call[o].mode
                                   /\ o \in locks[i].holders

\* C19: a scoped acquisition that gives up after its last refused attempt
\* never starts the block and releases nothing: the owner holds exactly the
\* locks it held when the call began, those on the requested ids included;
\* the exit of a block that did start makes at most one unlock call.
C19_NoReleaseOnFailure ==
    [][/\ \A o \in Owners :
            pc[o] = "wait" /\ last'.op = "failed" /\ last'.owner = o
            => /\ pc'[o] = "idle" /\ call'[o] = NoCall
               /\ Held(locks', o) = pre[o]
               /\ last'.residual = pre[o] \cap call[o].ids
               /\ \A i \in Ids : locks'[i] = locks[i]
       /\ last'.op = "exit" => last'.unlocks <= 1
      ]_vars

\* a call has given up and its owner still holds a lock it held before on
\* one of the requested ids
C19_Witness ==
    /\ last.op = "failed" /\ last.outcome = "CannotLock"
    /\ last.residual # {}
    /\ pc[last.owner] = "idle"

\* C20: the exit of a scoped acquisition changes nothing but the exiting
\* owner's own holds on the requested ids: records of other ids stay as they
\* are, and on the requested ids every other owner stays a holder, in the
\* same mode, exactly if it was one.
C20_ExitFrame ==
    [][\A o \in Owners :
            last'.op = "exit" /\ last'.owner = o /\ pc[o] = "body"
            => /\ \A i \in Ids \ call[o].ids : locks'[i] = locks[i]
               /\ \A i \in call[o].ids :
                     /\ locks'[i].holders \ {o} = locks[i].holders \ {o}
                     /\ locks'[i].holders # {} => locks'[i].mode = locks[i].mode
                     /\ o \in locks'[i].holders => locks'[i] = locks[i]
      ]_vars

\* a scoped read lock has ended and released; another owner still holds a
\* read lock, and the exiting owner still holds a lock on another id
C20_Witness ==
    /\ last.op = "exit" /\ last.mode = "Read" /\ last.residual = {}
    /\ last.unlocks = 1
    /\ \E i \in Ids : /\ locks[i].mode = "Read"
                      /\ locks[i].holders = Owners \ {last.owner}
    /\ \E i \in Ids : /\ locks[i].mode = "Read"
                      /\ last.owner \in locks[i].holders

====
